---- MODULE Spec2Model ----
(***************************************************************************)
(* Host-side orchestration of parabody's compute pipeline                  *)
(* (src/src/pipeline.rs, src/src/structures.rs): the double-buffered body  *)
(* store, the dynamic configuration and its device copy, the blocking map  *)
(* and submission waits, and the device that runs asynchronously to the    *)
(* single host thread.  A Body is abstracted to one number; buffer A is    *)
(* body_buffers[0] and buffer B is body_buffers[1] of the source.          *)
(***************************************************************************)
EXTENDS Integers, Sequences, FiniteSets, TLC

\* ---- bounds of the model -------------------------------------------------
MaxBodies == 2      \* static_config.max_bodies handed to Pipeline::create
MaxIn == 1          \* bodies written by the caller take values 0..MaxIn
MaxDt == 1          \* set_dt is called with values 1..MaxDt
MaxSteps == 2       \* submit_and_block is called with 0..MaxSteps passes
MaxOps == 4         \* number of API calls made after create
CalcSpan == 70      \* the arithmetic is tried on num_bodies this far around
                    \* 0, 2^24 and 2^27

\* ---- program constants ---------------------------------------------------
DefaultDt == 3600
WorkgroupSize == 64
F32Mantissa == 24
U32Bits == 32

\* the "step" kernel advances a body modulo NumVals, past every input value
NumVals == MaxIn + 2

Buffers == {"A", "B"}
Kernels == {"copy", "step", "echo_dt"}
\* the inputs of write_bodies: every length up to one over capacity, the
\* bodies of an input pairwise different as far as the values allow
Inputs ==
    {[i \in 1..n |-> (v + i - 1) % (MaxIn + 1)] :
        n \in 0..(MaxBodies + 1), v \in 0..MaxIn}

VARIABLES
    pc,              \* position of the host thread
    op,              \* the API call the host thread is in
    active_source,   \* Pipeline.active_source
    dynamic_config,  \* Pipeline.dynamic_config (host)
    config_buffer,   \* contents of Pipeline.config_buffer (device)
    body_buffers,    \* contents of Pipeline.body_buffers (device)
    map_state,       \* per buffer: unmapped, pending, ok, err, mapped
    slice,           \* the BufferSlice of the map request in progress
    signal,          \* the AtomicBool of the wait in progress
    input,           \* argument of the last write_bodies
    dt_arg,          \* argument of the last set_dt, the default before any
    num_passes,      \* argument of submit_and_block
    queue,           \* command buffers submitted and not yet finished
    work_done,       \* on_submitted_work_done callback: none, registered, ready
    output,          \* value returned by read_bodies, until the next call
    abort_cause,     \* why the process panicked, "none" while it runs
    kernel,          \* the compute shader the pipeline was created with
    \* history variables
    op_count,        \* API calls made so far
    run,             \* progress of a write; submit; read run and the
                     \* buffers its calls so far amount to, taken in sequence
    call_active,     \* active_source when the current submit_and_block began
    submissions,     \* queue.submit calls made by the current submit_and_block
    total_dispatches,\* dispatches recorded since create
    executed,        \* dispatches the device has executed since create
    last_dispatch,   \* source and destination of the last dispatch executed
    fresh_write,     \* a write_bodies has returned and no dispatch ran since
    \* the arithmetic of the pipeline on a num_bodies of its own
    num,             \* a value of num_bodies
    calc             \* what the pipeline computes from num

vars == <<pc, op, active_source, dynamic_config, config_buffer, body_buffers,
          map_state, slice, signal, input, dt_arg, num_passes, queue,
          work_done, output, abort_cause, kernel, op_count, run, call_active,
          submissions, total_dispatches, executed, last_dispatch,
          fresh_write, num, calc>>


\* ---- pure functions -------------------------------------------------------

\* other returning the buffer it was given
otherSame(s) == s

\* SourceBuffer::other
other(s) == IF s = "A" THEN "B" ELSE "A"

\* the zeroed record in place of the default one
DefaultConfigZeroed == [num_bodies |-> 0, dt |-> 0]

\* DynamicConfig::default
DefaultConfig == [num_bodies |-> 0, dt |-> DefaultDt]

\* a freshly created wgpu buffer reads as zero
ZeroBodies == [i \in 1..MaxBodies |-> 0]
ZeroConfig == [num_bodies |-> 0, dt |-> 0]

\* size_of::<Body>(): eight f32 fields
BodySize == 32

\* size_of::<DynamicConfig>(): num_bodies, dt and two words of padding
ConfigSize == 16

RECURSIVE Pow2(_)
Pow2(k) == IF k = 0 THEN 1 ELSE 2 * Pow2(k - 1)

RECURSIVE BitLen(_)
BitLen(n) == IF n = 0 THEN 0 ELSE 1 + BitLen(n \div 2)

\* `n as f32`: round to nearest, ties to even, on a 24-bit significand
AsF32(n) ==
    IF n < Pow2(F32Mantissa) THEN n
    ELSE LET q  == Pow2(BitLen(n) - F32Mantissa)
             r  == n % q
             lo == n - r
         IN  IF 2 * r < q THEN lo
             ELSE IF 2 * r > q THEN lo + q
             ELSE IF (lo \div q) % 2 = 0 THEN lo ELSE lo + q

\* (num_bodies as f32 / 64.0).ceil() as u32
Workgroups(n) ==
    LET f == AsF32(n)
    IN  IF f % WorkgroupSize = 0 THEN f \div WorkgroupSize
        ELSE f \div WorkgroupSize + 1

\* the records whose bytes fill the range of a u32: 2^32 / size_of::<Body>()
U32Records == Pow2(U32Bits - (BitLen(BodySize) - 1))

\* num_bodies * size_of::<Body>() as u32 overflows
UpperBoundOverflows(n) == n >= U32Records

\* upper_bound of the slice taken by write_bodies and read_bodies, a u32
\* product: the low 32 bits of n * 32 are (n mod 2^27) * 32
UpperBound(n) == (n % U32Records) * BodySize

\* the assert off by one
CapacityOkLoose(in) == Len(in) <= MaxBodies + 1

\* assert!(input.len() <= self.static_config.max_bodies as usize)
CapacityOk(in) == Len(in) <= MaxBodies

\* num_bodies assigned ahead of the assert
NumBodiesAssignedFirst(in) == Len(in)

\* num_bodies after write_bodies(in): assigned only once the assert passed
NumBodiesAfterWrite(in) ==
    IF CapacityOk(in) THEN Len(in) ELSE dynamic_config.num_bodies

\* write_bodies mapping the buffer that is not active
WriteTargetOther(a) == IF a = "A" THEN "B" ELSE "A"

\* the buffer write_bodies maps
WriteTarget(a) == IF a = "A" THEN "A" ELSE "B"

\* read_bodies mapping the active buffer
ReadTargetActive(a) == a

\* the buffer read_bodies maps
ReadTarget(a) == IF a = "A" THEN "B" ELSE "A"

\* the bind group a pass sets for group 1: binding 0 is the read-only
\* source, binding 1 the read-write destination
BindGroup(a) ==
    IF a = "A" THEN [src |-> "A", dst |-> "B"]
    ELSE [src |-> "B", dst |-> "A"]

\* one iteration of the pass loop of submit_and_block
RecordPass(a, cfg) ==
    [src |-> BindGroup(a).src, dst |-> BindGroup(a).dst,
     groups |-> Workgroups(cfg.num_bodies)]

\* the pass loop with the toggle moved behind it: one toggle per batch
EncodeToggleOnce(n, a, cfg) ==
    [passes |-> [i \in 1..n |-> RecordPass(a, cfg)],
     active |-> IF n = 0 THEN a ELSE other(a)]

\* the for loop of submit_and_block: the passes recorded and the flag after
RECURSIVE Encode(_, _, _)
Encode(n, a, cfg) ==
    IF n = 0 THEN [passes |-> <<>>, active |-> a]
    ELSE LET rest == Encode(n - 1, other(a), cfg)
         IN  [passes |-> <<RecordPass(a, cfg)>> \o rest.passes,
              active |-> rest.active]

\* the compute shader, one invocation: what it stores in dst[i]
KernelBody(k, src, i, cfg) ==
    CASE k = "copy"    -> src[i]
      [] k = "step"    -> (src[i] + 1) % NumVals
      [] k = "echo_dt" -> cfg.dt

\* one dispatch: invocations below num_bodies store a body, the rest return
RunDispatch(k, d, bufs, cfg) ==
    [bufs EXCEPT ![d.dst] =
        [i \in 1..MaxBodies |->
            IF i <= cfg.num_bodies /\ i <= d.groups * WorkgroupSize
            THEN KernelBody(k, bufs[d.src], i, cfg)
            ELSE bufs[d.dst][i]]]

\* a copy that clears the records past the input
CopyInWhole(buf, in) ==
    [i \in 1..MaxBodies |-> IF i <= Len(in) THEN in[i] ELSE 0]

\* copy_from_slice into the mapped range of a body buffer
CopyIn(buf, in) ==
    [i \in 1..MaxBodies |-> IF i <= Len(in) THEN in[i] ELSE buf[i]]

\* cast_slice(mapped range).to_owned()
CopyOut(buf, bytes) == [i \in 1..(bytes \div BodySize) |-> buf[i]]

\* the closure with the result dropped instead of unwrapped
MapCallbackIgnoresResult(result) == [signal |-> TRUE, panic |-> FALSE]

\* the closure handed to map_async: expect() on the result, then the store
MapCallback(result) ==
    IF result = "ok" THEN [signal |-> TRUE, panic |-> FALSE]
    ELSE [signal |-> FALSE, panic |-> TRUE]

\* a work-done closure that does not store to the flag
WorkDoneCallbackNoStore == FALSE

\* the closure handed to on_submitted_work_done
WorkDoneCallback == TRUE

\* the loop condition without the negation
WaitOverInverted(s) == ~s

\* a loop that gives up without the flag
WaitOverTimeout(s) == TRUE

\* `while !signal.load(SeqCst)`: the loop is left once the flag is set
WaitOver(s) == s

\* ---- a run taken in sequence, one call after the other ---------------------

\* the buffers after write_bodies(in) on buffers bufs with flag a
RunWrite(bufs, a, in) ==
    [bufs EXCEPT ![WriteTarget(a)] = CopyIn(bufs[WriteTarget(a)], in)]

\* the passes of a batch applied one after the other to the buffers
RECURSIVE RunPasses(_, _, _, _)
RunPasses(k, passes, bufs, cfg) ==
    IF passes = <<>> THEN bufs
    ELSE RunPasses(k, Tail(passes), RunDispatch(k, Head(passes), bufs, cfg), cfg)

\* the buffers after submit_and_block(n) on buffers bufs with flag a and
\* host configuration cfg
RunSubmit(k, bufs, a, cfg, n) ==
    RunPasses(k, Encode(n, a, cfg).passes, bufs, cfg)

\* what read_bodies returns on buffers bufs with flag a and num_bodies n
RunRead(bufs, a, n) == CopyOut(bufs[ReadTarget(a)], UpperBound(n))

NoRun == [phase |-> 0, buffers |-> [b \in Buffers |-> ZeroBodies]]
NoDispatch == [src |-> "none", dst |-> "none"]

NoCalc == [state |-> "none"]

\* ---- initial state: Pipeline::create has built Self --------------------------
InitPipeline ==
    /\ pc = "sync_start"
    /\ op = "create"
    /\ active_source = "A"
    /\ dynamic_config = DefaultConfig
    /\ config_buffer = ZeroConfig
    /\ body_buffers = [b \in Buffers |-> ZeroBodies]
    /\ map_state = [b \in Buffers \cup {"config"} |-> "unmapped"]
    /\ slice = [buffer |-> "config", bytes |-> 0]
    /\ signal = FALSE
    /\ input = <<>>
    /\ dt_arg = DefaultDt
    /\ num_passes = 0
    /\ queue = <<>>
    /\ work_done = "none"
    /\ output = <<>>
    /\ abort_cause = "none"
    /\ kernel \in Kernels
    /\ op_count = 0
    /\ run = NoRun
    /\ call_active = "A"
    /\ submissions = 0
    /\ total_dispatches = 0
    /\ executed = 0
    /\ last_dispatch = NoDispatch
    /\ fresh_write = FALSE

Init ==
    /\ InitPipeline
    /\ num = 0
    /\ calc = NoCalc

\* ---- map_slice_blocking -----------------------------------------------------

\* map_slice_blocking up to the loop: a fresh flag and the map_async request
MapAsync(buf, bytes) ==
    /\ slice' = [buffer |-> buf, bytes |-> bytes]
    /\ signal' = FALSE
    /\ map_state' = [map_state EXCEPT ![buf] = "pending"]

MapWaits == {"sync_wait", "write_wait", "read_wait"}

\* one turn of the loop of map_slice_blocking: device.poll(Maintain::Poll)
\* runs the callback of the map request if the device has resolved it
PollMap ==
    /\ pc \in MapWaits
    /\ ~WaitOver(signal)
    /\ LET st == map_state[slice.buffer]
       IN  IF st \in {"ok", "err"}
           THEN LET cb == MapCallback(st)
                IN  /\ map_state' = [map_state EXCEPT ![slice.buffer] =
                                        IF st = "ok" THEN "mapped" ELSE "unmapped"]
                    /\ signal' = cb.signal
                    /\ pc' = IF cb.panic THEN "aborted" ELSE pc
                    /\ abort_cause' = IF cb.panic THEN "map" ELSE abort_cause
           ELSE UNCHANGED <<map_state, signal, pc, abort_cause>>
    /\ UNCHANGED <<fresh_write, num, calc,
                   op, active_source, dynamic_config, config_buffer,
                   body_buffers, slice, input, num_passes, queue, work_done,
                   output, kernel, dt_arg, op_count, run, call_active, submissions,
                   total_dispatches, executed, last_dispatch>>

\* an unmap left out
UnmapForgotten(ms, buf) == ms

\* Buffer::unmap
Unmap(ms, buf) == [ms EXCEPT ![buf] = "unmapped"]

\* ---- synchronize_dynamic_config --------------------------------------------

SyncMapAsync ==
    /\ pc = "sync_start"
    /\ MapAsync("config", ConfigSize)
    /\ pc' = "sync_wait"
    /\ UNCHANGED <<fresh_write, num, calc,
                   op, active_source, dynamic_config, config_buffer,
                   body_buffers, input, num_passes, queue, work_done, output,
                   abort_cause, kernel, dt_arg, op_count, run, call_active,
                   submissions, total_dispatches, executed, last_dispatch>>

\* a synchronisation that leaves the config buffer as it is
SyncedStale == config_buffer

\* what synchronize_dynamic_config stores in the config buffer
SyncedConfig == dynamic_config

\* the copy into the mapped range and the unmap; create returns after it
SyncCopy ==
    /\ pc = "sync_wait"
    /\ WaitOver(signal)
    /\ config_buffer' = SyncedConfig
    /\ map_state' = Unmap(map_state, "config")
    /\ pc' = IF op = "create" THEN "idle" ELSE "encode"
    /\ UNCHANGED <<fresh_write, num, calc,
                   op, active_source, dynamic_config, body_buffers, slice,
                   signal, input, num_passes, queue, work_done, output,
                   abort_cause, kernel, dt_arg, op_count, run, call_active,
                   submissions, total_dispatches, executed, last_dispatch>>

\* ---- set_dt -------------------------------------------------------------------

\* set_dt writing through to the device
ConfigBufferWriteThrough(v) == [config_buffer EXCEPT !.dt = v]

\* the device copy of the configuration after set_dt(v)
ConfigBufferAfterSetDt(v) == config_buffer

SetDt(v) ==
    /\ pc = "idle"
    /\ op_count < MaxOps
    /\ op' = "set_dt"
    /\ dt_arg' = v
    /\ dynamic_config' = [dynamic_config EXCEPT !.dt = v]
    /\ config_buffer' = ConfigBufferAfterSetDt(v)
    /\ op_count' = op_count + 1
    /\ run' = NoRun
    /\ output' = <<>>
    /\ UNCHANGED <<fresh_write, num, calc,
                   pc, active_source, body_buffers, map_state, slice, signal,
                   input, num_passes, queue, work_done, abort_cause,
                   kernel, call_active, submissions, total_dispatches,
                   executed, last_dispatch>>

\* ---- write_bodies -----------------------------------------------------------

WriteBodies(in) ==
    /\ pc = "idle"
    /\ op_count < MaxOps
    /\ op' = "write"
    /\ input' = in
    /\ op_count' = op_count + 1
    /\ dynamic_config' =
           [dynamic_config EXCEPT !.num_bodies = NumBodiesAfterWrite(in)]
    /\ IF CapacityOk(in)
       THEN /\ MapAsync(WriteTarget(active_source),
                        UpperBound(dynamic_config'.num_bodies))
            /\ pc' = "write_wait"
            /\ run' = [phase |-> 1,
                       buffers |-> RunWrite(body_buffers, active_source, in)]
            /\ UNCHANGED abort_cause
       ELSE /\ pc' = "aborted"
            /\ abort_cause' = "capacity"
            /\ run' = NoRun
            /\ UNCHANGED <<slice, signal, map_state>>
    /\ output' = <<>>
    /\ UNCHANGED <<fresh_write, num, calc,
                   active_source, config_buffer, body_buffers, num_passes,
                   queue, work_done, kernel, dt_arg, call_active, submissions,
                   total_dispatches, executed, last_dispatch>>

\* the copy into the mapped range (copy_from_slice panics on a length
\* mismatch) and the unmap of the active buffer
WriteCopy ==
    /\ pc = "write_wait"
    /\ WaitOver(signal)
    /\ IF slice.bytes = Len(input) * BodySize
       THEN /\ body_buffers' = [body_buffers EXCEPT ![slice.buffer] =
                                   CopyIn(body_buffers[slice.buffer], input)]
            /\ map_state' = Unmap(map_state, WriteTarget(active_source))
            /\ pc' = "idle"
            /\ fresh_write' = TRUE
            /\ UNCHANGED abort_cause
       ELSE /\ pc' = "aborted"
            /\ abort_cause' = "copy"
            /\ UNCHANGED <<body_buffers, map_state, fresh_write>>
    /\ UNCHANGED <<num, calc,
                   op, active_source, dynamic_config, config_buffer, slice,
                   signal, input, num_passes, queue, work_done, output,
                   kernel, dt_arg, op_count, run, call_active, submissions,
                   total_dispatches, executed, last_dispatch>>

\* ---- read_bodies ------------------------------------------------------------

ReadBodies ==
    /\ pc = "idle"
    /\ op_count < MaxOps
    /\ op' = "read"
    /\ op_count' = op_count + 1
    /\ MapAsync(ReadTarget(active_source),
                UpperBound(dynamic_config.num_bodies))
    /\ pc' = "read_wait"
    /\ run' = IF run.phase = 2 THEN [run EXCEPT !.phase = 3] ELSE NoRun
    /\ output' = <<>>
    /\ UNCHANGED <<fresh_write, num, calc,
                   active_source, dynamic_config, config_buffer, body_buffers,
                   input, num_passes, queue, work_done, abort_cause,
                   kernel, dt_arg, call_active, submissions, total_dispatches,
                   executed, last_dispatch>>

ReadCopy ==
    /\ pc = "read_wait"
    /\ WaitOver(signal)
    /\ output' = CopyOut(body_buffers[slice.buffer], slice.bytes)
    /\ map_state' = Unmap(map_state, ReadTarget(active_source))
    /\ pc' = "idle"
    /\ UNCHANGED <<fresh_write, num, calc,
                   op, active_source, dynamic_config, config_buffer,
                   body_buffers, slice, signal, input, num_passes, queue,
                   work_done, abort_cause, kernel, dt_arg, op_count, run, call_active,
                   submissions, total_dispatches, executed, last_dispatch>>

\* ---- submit_and_block -------------------------------------------------------

\* entry of submit_and_block: the call starts with synchronize_dynamic_config
SubmitAndBlock(n) ==
    /\ pc = "idle"
    /\ op_count < MaxOps
    /\ op' = "submit"
    /\ op_count' = op_count + 1
    /\ num_passes' = n
    /\ call_active' = active_source
    /\ submissions' = 0
    /\ pc' = "sync_start"
    /\ run' = IF run.phase = 1
              THEN [phase |-> 2,
                    buffers |-> RunSubmit(kernel, run.buffers, active_source,
                                          dynamic_config, n)]
              ELSE NoRun
    /\ output' = <<>>
    /\ UNCHANGED <<fresh_write, num, calc,
                   active_source, dynamic_config, config_buffer, body_buffers,
                   map_state, slice, signal, input, queue, work_done,
                   abort_cause, kernel, dt_arg, total_dispatches, executed,
                   last_dispatch>>

\* one submission per pass
SubmitPerPass(q, passes) == q \o [i \in 1..Len(passes) |-> <<passes[i]>>]

\* queue.submit(Some(encoder.finish())): one command buffer with every pass
Submit(q, passes) == Append(q, passes)

\* bind groups, encoder, the pass loop and the submission
SubmitEncode ==
    /\ pc = "encode"
    /\ LET e == Encode(num_passes, active_source, dynamic_config)
       IN  /\ active_source' = e.active
           /\ queue' = Submit(queue, e.passes)
           /\ total_dispatches' = total_dispatches + Len(e.passes)
    /\ submissions' = submissions + (Len(queue') - Len(queue))
    /\ pc' = "submitted"
    /\ UNCHANGED <<fresh_write, num, calc,
                   op, dynamic_config, config_buffer, body_buffers, map_state,
                   slice, signal, input, num_passes, work_done, output,
                   abort_cause, kernel, dt_arg, op_count, run, call_active, executed,
                   last_dispatch>>

\* a fresh flag and queue.on_submitted_work_done
SubmitRegister ==
    /\ pc = "submitted"
    /\ signal' = FALSE
    /\ work_done' = "registered"
    /\ pc' = "submit_wait"
    /\ UNCHANGED <<fresh_write, num, calc,
                   op, active_source, dynamic_config, config_buffer,
                   body_buffers, map_state, slice, input, num_passes, queue,
                   output, abort_cause, kernel, dt_arg, op_count, run, call_active,
                   submissions, total_dispatches, executed, last_dispatch>>

\* one turn of the loop of submit_and_block: device.poll(Maintain::Poll)
\* runs the work-done callback if the device has reported completion
PollSubmit ==
    /\ pc = "submit_wait"
    /\ ~WaitOver(signal)
    /\ IF work_done = "ready"
       THEN /\ signal' = WorkDoneCallback
            /\ work_done' = "none"
       ELSE UNCHANGED <<signal, work_done>>
    /\ UNCHANGED <<fresh_write, num, calc,
                   pc, op, active_source, dynamic_config, config_buffer,
                   body_buffers, map_state, slice, input, num_passes, queue,
                   output, abort_cause, kernel, dt_arg, op_count, run, call_active,
                   submissions, total_dispatches, executed, last_dispatch>>

SubmitReturn ==
    /\ pc = "submit_wait"
    /\ WaitOver(signal)
    /\ pc' = "idle"
    /\ UNCHANGED <<fresh_write, num, calc,
                   op, active_source, dynamic_config, config_buffer,
                   body_buffers, map_state, slice, signal, input, num_passes,
                   queue, work_done, output, abort_cause, kernel, dt_arg, op_count,
                   run, call_active, submissions, total_dispatches, executed,
                   last_dispatch>>

\* ---- the device ---------------------------------------------------------------

\* the device resolves a pending map request
DeviceMap(result) ==
    /\ pc # "aborted"
    /\ \E b \in DOMAIN map_state :
          /\ map_state[b] = "pending"
          /\ map_state' = [map_state EXCEPT ![b] = result]
    /\ UNCHANGED <<fresh_write, num, calc,
                   pc, op, active_source, dynamic_config, config_buffer,
                   body_buffers, slice, signal, input, num_passes, queue,
                   work_done, output, abort_cause, kernel, dt_arg, op_count, run,
                   call_active, submissions, total_dispatches, executed,
                   last_dispatch>>

DeviceMapOk == DeviceMap("ok")

DeviceMapErr == DeviceMap("err")

\* the dispatch the device runs next: the queue is in order
NextDispatch == Head(Head(queue))

\* the device runs the next dispatch of the oldest command buffer
DeviceExecute ==
    /\ pc # "aborted"
    /\ queue # <<>>
    /\ Head(queue) # <<>>
    /\ body_buffers' =
           RunDispatch(kernel, NextDispatch, body_buffers, config_buffer)
    /\ queue' = <<Tail(Head(queue))>> \o Tail(queue)
    /\ executed' = executed + 1
    /\ last_dispatch' = [src |-> NextDispatch.src, dst |-> NextDispatch.dst]
    /\ fresh_write' = FALSE
    /\ UNCHANGED <<num, calc,
                   pc, op, active_source, dynamic_config, config_buffer,
                   map_state, slice, signal, input, num_passes, work_done,
                   output, abort_cause, kernel, dt_arg, op_count, run, call_active,
                   submissions, total_dispatches>>

\* a command buffer whose dispatches have all run is finished
DeviceRetire ==
    /\ pc # "aborted"
    /\ queue # <<>>
    /\ Head(queue) = <<>>
    /\ queue' = Tail(queue)
    /\ UNCHANGED <<fresh_write, num, calc,
                   pc, op, active_source, dynamic_config, config_buffer,
                   body_buffers, map_state, slice, signal, input, num_passes,
                   work_done, output, abort_cause, kernel, dt_arg, op_count, run,
                   call_active, submissions, total_dispatches, executed,
                   last_dispatch>>

\* all work submitted before the registration is done
WorkIsDone == queue = <<>>

\* the device reports the submitted work done: the callback becomes ready
DeviceWorkDone ==
    /\ pc # "aborted"
    /\ work_done = "registered"
    /\ WorkIsDone
    /\ work_done' = "ready"
    /\ UNCHANGED <<fresh_write, num, calc,
                   pc, op, active_source, dynamic_config, config_buffer,
                   body_buffers, map_state, slice, signal, input, num_passes,
                   queue, output, abort_cause, kernel, dt_arg, op_count, run,
                   call_active, submissions, total_dispatches, executed,
                   last_dispatch>>

\* ---- specification ------------------------------------------------------------

Next ==
    \/ SyncMapAsync
    \/ PollMap
    \/ SyncCopy
    \/ \E v \in 1..MaxDt : SetDt(v)
    \/ \E in \in Inputs : WriteBodies(in)
    \/ WriteCopy
    \/ ReadBodies
    \/ ReadCopy
    \/ \E n \in 0..MaxSteps : SubmitAndBlock(n)
    \/ SubmitEncode
    \/ SubmitRegister
    \/ PollSubmit
    \/ SubmitReturn
    \/ DeviceMapOk
    \/ DeviceMapErr
    \/ DeviceExecute
    \/ DeviceRetire
    \/ DeviceWorkDone

Spec == Init /\ [][Next]_vars

\* a run write_bodies(X); submit_and_block(n); read_bodies() has returned
RunReturned == pc = "idle" /\ op = "read" /\ run.phase = 3

\* ---- claims ---------------------------------------------------------------------

\* C1 (as claimed): write_particles(X); submit_and_block(0); read_particles()
\* returns exactly X.  The code reads the buffer that is not active, which
\* the write did not touch.
C1_ZeroStepIdentity ==
    (RunReturned /\ num_passes = 0) => output = input

\* C2 (as claimed): after write_particles(X); submit_and_block(n), n >= 1,
\* read_particles returns the contents of the destination buffer of the last
\* executed dispatch, and the buffer it selects is that destination.  The
\* code selects the source of the last dispatch.
C2_ReadReturnsLastResult ==
    (RunReturned /\ num_passes >= 1) =>
        /\ ReadTarget(active_source) = last_dispatch.dst
        /\ output = CopyOut(body_buffers[last_dispatch.dst],
                            UpperBound(dynamic_config.num_bodies))

\* the flag after n toggles starting from a
Parity(a, n) == IF n % 2 = 0 THEN a ELSE other(a)

\* C3: once submit_and_block(n) has recorded its passes, and when it
\* returns, the flag is the flag at the call when n is even and the other
\* value when n is odd, for every kernel; at all times the flag is given by
\* the parity of the number of dispatches recorded since create.
C3_Parity ==
    /\ active_source = Parity("A", total_dispatches)
    /\ (op = "submit" /\ pc \in {"submitted", "submit_wait", "idle"}) =>
           active_source = Parity(call_active, num_passes)

\* submit_and_block(n) with n odd has returned from a B-active start
C3_Witness ==
    /\ pc = "idle" /\ op = "submit"
    /\ call_active = "B" /\ num_passes % 2 = 1 /\ active_source = "A"

\* the step is the call of write_bodies with an input over capacity
OverCapacityWrite ==
    /\ pc = "idle"
    /\ op' = "write"
    /\ op_count' = op_count + 1
    /\ Len(input') > MaxBodies

\* C4: write_bodies with more than max_bodies bodies panics on its assert
\* and changes nothing: both body buffers, the config buffer, the host
\* configuration and the flag stay as they were, and no map is requested.
C4_CapacityGuard ==
    [][OverCapacityWrite =>
          /\ pc' = "aborted"
          /\ abort_cause' = "capacity"
          /\ body_buffers' = body_buffers
          /\ config_buffer' = config_buffer
          /\ dynamic_config' = dynamic_config
          /\ active_source' = active_source
          /\ map_state' = map_state
          /\ slice' = slice]_vars

\* an over-capacity write has panicked, after an earlier write took effect
C4_Witness ==
    /\ pc = "aborted"
    /\ abort_cause = "capacity"
    /\ Len(input) = MaxBodies + 1
    /\ dynamic_config.num_bodies > 0

\* C5: num_bodies never exceeds max_bodies, in the host configuration and in
\* the config buffer, failed writes included.
C5_ActiveCountBounded ==
    /\ dynamic_config.num_bodies <= MaxBodies
    /\ config_buffer.num_bodies <= MaxBodies

\* a full-capacity write has been synchronised to the device
C5_Witness ==
    /\ dynamic_config.num_bodies = MaxBodies
    /\ config_buffer.num_bodies = MaxBodies

\* C6: whenever the device runs a dispatch, the config buffer the kernel
\* reads equals the host configuration of the submit_and_block call, whose
\* dt is the argument of the latest set_dt (the default if none) and whose
\* num_bodies is the length of the latest write (0 if none); the host
\* configuration does not change while the call runs.
C6_ConfigPropagation ==
    [][/\ (executed' = executed + 1) =>
              /\ op = "submit"
              /\ config_buffer = dynamic_config
              /\ config_buffer.dt = dt_arg
              /\ config_buffer.num_bodies = Len(input)
       /\ (op = "submit" /\ op' = "submit") =>
              dynamic_config' = dynamic_config]_vars

\* set_dt(1) then a dispatch of the kernel that echoes dt: the body holds 1
C6_Witness ==
    /\ executed > 0
    /\ kernel = "echo_dt"
    /\ pc = "submit_wait"
    /\ dt_arg = 1
    /\ Len(input) >= 1
    /\ body_buffers[last_dispatch.dst][1] = 1

\* C7: no step of set_dt or write_bodies changes the config buffer; it
\* changes only in the copy of synchronize_dynamic_config, called from
\* create and submit_and_block.
C7_DeviceConfigFrame ==
    [][/\ (op' \in {"set_dt", "write"}) => config_buffer' = config_buffer
       /\ (config_buffer' # config_buffer) =>
              (op \in {"create", "submit"} /\ pc = "sync_wait")]_vars

\* after set_dt and write_bodies the device copy lags behind the host in both
\* fields
C7_Witness ==
    /\ pc = "idle"
    /\ op \in {"set_dt", "write"}
    /\ config_buffer.dt # dynamic_config.dt
    /\ config_buffer.num_bodies # dynamic_config.num_bodies

\* C8: submit_and_block makes one submission holding its num_passes passes,
\* and when it has returned the queue is empty, every dispatch recorded so
\* far has run and no work-done callback is outstanding.
C8_OneSubmissionThenBlock ==
    /\ []((pc = "idle" /\ op = "submit") =>
            /\ submissions = 1
            /\ queue = <<>>
            /\ executed = total_dispatches
            /\ work_done = "none")
    /\ [][pc = "encode" =>
            /\ Len(queue') = Len(queue) + 1
            /\ Len(queue'[Len(queue')]) = num_passes]_vars

\* a batch of several passes has returned
C8_Witness ==
    /\ pc = "idle" /\ op = "submit"
    /\ num_passes >= 2
    /\ executed >= 2

\* C9: the output of a run write_bodies(X); submit_and_block(n);
\* read_bodies(), and the buffers it leaves, are functions of the state the
\* run started in, X, dt, n and the kernel: every interleaving of the
\* device, the callbacks and the polls gives what the three calls amount
\* to when taken in sequence (RunWrite, RunSubmit, RunRead).
C9_Determinism ==
    RunReturned =>
        /\ output = RunRead(run.buffers, active_source, Len(input))
        /\ body_buffers = run.buffers

\* a run of several passes of the step kernel over a non-empty input
C9_Witness ==
    /\ RunReturned
    /\ kernel = "step"
    /\ num_passes >= 2
    /\ Len(input) >= 1
    /\ output # input

\* C10: when the device has resolved a map request with an error, the next
\* poll of the waiting call panics: the call never leaves its wait, the flag
\* stays unset and neither the buffers nor the output are touched; a
\* panicked process takes no further step.
C10_MapErrorAborts ==
    /\ [][(pc \in MapWaits /\ map_state[slice.buffer] = "err") =>
             /\ pc' = "aborted"
             /\ abort_cause' = "map"
             /\ ~signal'
             /\ body_buffers' = body_buffers
             /\ config_buffer' = config_buffer
             /\ output' = output]_vars
    /\ [](abort_cause = "map" => (pc = "aborted" /\ ~signal))
    /\ [][pc # "aborted"]_vars

\* the map of read_bodies failed and the process panicked
C10_Witness ==
    /\ pc = "aborted"
    /\ abort_cause = "map"
    /\ op = "read"

\* the waits of the host thread: the poll loops of map_slice_blocking and
\* of submit_and_block
Waits == MapWaits \cup {"submit_wait"}

\* a callback of the wait in progress is ready for the next poll to run
CallbackReady ==
    \/ pc \in MapWaits /\ map_state[slice.buffer] \in {"ok", "err"}
    \/ pc = "submit_wait" /\ work_done = "ready"

\* C11: there is no timeout and no cancellation: while the flag is unset
\* and no callback is ready to be delivered, whatever step is taken leaves
\* the host thread in the same poll loop with the flag unset, however long
\* the device stalls.
C11_NoTimeout ==
    [][(pc \in Waits /\ ~signal /\ ~CallbackReady) =>
          (pc' = pc /\ ~signal')]_vars

\* the host polls for a batch the device has not finished
C11_Witness ==
    /\ pc = "submit_wait"
    /\ ~signal
    /\ work_done = "registered"
    /\ queue # <<>>

\* C12: every step of a write_bodies call keeps the flag, dt, the whole of
\* the buffer that is not active and the records of the active buffer past
\* the input; the call sets num_bodies to the length of the input, and when
\* it returns the first records of the active buffer are the input.
C12_WriteFrame ==
    [][op' = "write" =>
          /\ active_source' = active_source
          /\ dynamic_config'.dt = dynamic_config.dt
          /\ \A b \in Buffers :
                b # active_source => body_buffers'[b] = body_buffers[b]
          /\ \A i \in 1..MaxBodies :
                i > Len(input') => body_buffers'[active_source][i] =
                                       body_buffers[active_source][i]
          /\ (pc' = "write_wait") => dynamic_config'.num_bodies = Len(input')
          /\ (pc' = "idle") =>
                /\ dynamic_config'.num_bodies = Len(input)
                /\ \A i \in 1..Len(input) :
                      body_buffers'[active_source][i] = input[i]]_vars

\* a write shorter than the buffer has returned over an earlier, longer
\* write: the record past the input is still the earlier one
C12_Witness ==
    /\ pc = "idle" /\ op = "write"
    /\ Len(input) >= 1
    /\ Len(input) < MaxBodies
    /\ body_buffers[active_source][1] = input[1]
    /\ body_buffers[active_source][MaxBodies] # 0

\* C13: no step of a read_bodies call changes the flag, the host
\* configuration, the config buffer or a body buffer, and the value it
\* returns is the first num_bodies records of the buffer that is not active
\* (B when A-active, A when B-active).
C13_ReadExact ==
    [][op' = "read" =>
          /\ active_source' = active_source
          /\ dynamic_config' = dynamic_config
          /\ config_buffer' = config_buffer
          /\ body_buffers' = body_buffers
          /\ (pc' = "idle") =>
                output' = [i \in 1..dynamic_config.num_bodies |->
                              body_buffers[IF active_source = "A"
                                           THEN "B" ELSE "A"][i]]]_vars

\* a read has returned records that differ from those of the active buffer
C13_Witness ==
    /\ pc = "idle" /\ op = "read"
    /\ Len(output) = dynamic_config.num_bodies
    /\ Len(output) >= 1
    /\ output[1] # body_buffers[active_source][1]

\* the buffer that is not b
Opposite(b) == CHOOSE c \in Buffers : c # b

\* the command buffer the step has submitted
Submitted == queue'[Len(queue')]

\* C14: the passes a submit_and_block call records bind, in turn, the
\* active buffer as source and the other one as destination (A to B when
\* A-active, B to A when B-active); the destination of a pass is the source
\* of the next; the flag ends on the destination of the last pass, one
\* toggle per pass.  The device runs every dispatch from one buffer into the
\* other, its source being the destination of the dispatch run before it,
\* within a batch and from one batch to the next.
C14_PingPong ==
    [][/\ (pc = "encode") =>
              /\ Len(Submitted) = num_passes
              /\ \A i \in 1..Len(Submitted) :
                    /\ Submitted[i].src \in Buffers
                    /\ Submitted[i].dst = Opposite(Submitted[i].src)
                    /\ Submitted[i].src = IF i % 2 = 1 THEN active_source
                                          ELSE Opposite(active_source)
              /\ \A i \in 1..(Len(Submitted) - 1) :
                    Submitted[i + 1].src = Submitted[i].dst
              /\ active_source' = IF num_passes = 0 THEN active_source
                                  ELSE Submitted[num_passes].dst
       /\ (executed' = executed + 1) =>
              /\ last_dispatch'.dst = Opposite(last_dispatch'.src)
              /\ (executed > 0) => last_dispatch'.src = last_dispatch.dst
              /\ body_buffers'[last_dispatch'.src] =
                     body_buffers[last_dispatch'.src]]_vars

\* the device has run a dispatch from B into A after one from A into B
C14_Witness ==
    /\ executed >= 2
    /\ last_dispatch = [src |-> "B", dst |-> "A"]
    /\ num_passes >= 2

\* C15: the first dispatch the device runs after a write_bodies(X) has
\* returned reads a source buffer whose first records are X, whether the
\* write was made A-active or B-active.
C15_WriteIsNextSource ==
    [][(executed' = executed + 1 /\ fresh_write) =>
          [i \in 1..Len(input) |-> body_buffers[last_dispatch'.src][i]] =
              input]_vars

\* a batch submitted after a B-active write has run its first dispatch,
\* from B
C15_Witness ==
    /\ op = "submit"
    /\ run.phase = 2
    /\ call_active = "B"
    /\ queue # <<>>
    /\ Len(Head(queue)) = num_passes - 1
    /\ last_dispatch.src = "B"
    /\ Len(input) >= 1
    /\ input[1] # 0

\* the buffers with a map requested or held
MapsOpen == {b \in DOMAIN map_state : map_state[b] # "unmapped"}

\* the step is a host access to device memory: a store to the config
\* buffer, a store to a body buffer that is not a dispatch, or the copy
\* with which a map wait ends
HostAccess ==
    \/ config_buffer' # config_buffer
    \/ body_buffers' # body_buffers /\ executed' = executed
    \/ pc \in MapWaits /\ pc' \notin MapWaits \cup {"aborted"}

\* C16: the host touches device memory only in the copy that ends a map
\* wait, on the region whose map the callback has reported, and the same
\* step unmaps it; at most one buffer has a map open at a time; none has
\* when a call has returned, nor from the recording of a batch until the
\* batch is done.
C16_MapScoping ==
    /\ [][HostAccess =>
             /\ pc \in MapWaits
             /\ signal
             /\ map_state[slice.buffer] = "mapped"
             /\ map_state'[slice.buffer] = "unmapped"
             /\ \A b \in Buffers :
                   b # slice.buffer => body_buffers'[b] = body_buffers[b]
             /\ (slice.buffer # "config") => config_buffer' = config_buffer]_vars
    /\ [](Cardinality(MapsOpen) <= 1)
    /\ [](pc = "idle" => MapsOpen = {})
    /\ []((queue # <<>> \/ pc \in {"encode", "submitted", "submit_wait"}) =>
             MapsOpen = {})

\* read_bodies holds the map of a body buffer after a batch has run
C16_Witness ==
    /\ pc = "read_wait"
    /\ signal
    /\ map_state[slice.buffer] = "mapped"
    /\ slice.buffer \in Buffers
    /\ slice.bytes > 0
    /\ executed >= 1

\* C18: when create has returned, the pipeline is A-active, the host
\* configuration is num_bodies = 0 with the default dt, the config buffer
\* holds the same record and no buffer has a map open.
C18_AfterCreate ==
    (pc = "idle" /\ op = "create") =>
        /\ active_source = "A"
        /\ dynamic_config = [num_bodies |-> 0, dt |-> DefaultDt]
        /\ config_buffer = [num_bodies |-> 0, dt |-> DefaultDt]
        /\ MapsOpen = {}
        /\ signal

\* create has returned and no call has been made yet
C18_Witness ==
    /\ pc = "idle"
    /\ op = "create"
    /\ op_count = 0
    /\ queue = <<>>

\* ---- the arithmetic on num_bodies, taken alone ------------------------------

\* values of num_bodies: a u32 no greater than max_bodies, itself any u32;
\* the values taken are those whose wrapped byte count stays below 2^31
NumBodiesInputs ==
    (0..CalcSpan)
        \cup ((Pow2(F32Mantissa) - CalcSpan)..(Pow2(F32Mantissa) + CalcSpan))
        \cup (U32Records..(U32Records + CalcSpan))

InitCalc ==
    /\ InitPipeline
    /\ num \in NumBodiesInputs
    /\ calc = NoCalc

\* the workgroup count submit_and_block hands to dispatch_workgroups
CalcWorkgroups ==
    /\ calc.state = "none"
    /\ calc' = [state |-> "workgroups", value |-> Workgroups(num)]
    /\ UNCHANGED <<pc, op, active_source, dynamic_config, config_buffer,
                   body_buffers, map_state, slice, signal, input, dt_arg,
                   num_passes, queue, work_done, output, abort_cause, kernel,
                   op_count, run, call_active, submissions, total_dispatches,
                   executed, last_dispatch, fresh_write, num>>

\* upper_bound in write_bodies and read_bodies: a build with overflow
\* checks panics on an overflowing product, one without wraps around
CalcUpperBound ==
    /\ calc.state = "none"
    /\ \/ calc' = [state |-> "upper_bound", value |-> UpperBound(num)]
       \/ /\ UpperBoundOverflows(num)
          /\ calc' = [state |-> "overflow_panic", value |-> 0]
    /\ UNCHANGED <<pc, op, active_source, dynamic_config, config_buffer,
                   body_buffers, map_state, slice, signal, input, dt_arg,
                   num_passes, queue, work_done, output, abort_cause, kernel,
                   op_count, run, call_active, submissions, total_dispatches,
                   executed, last_dispatch, fresh_write, num>>

NextCalc ==
    \/ CalcWorkgroups
    \/ CalcUpperBound

SpecCalc == InitCalc /\ [][NextCalc]_vars

\* C17 (as claimed): the workgroup count of a dispatch is the smallest w
\* with 64 * w >= num_bodies, for every num_bodies.  The conversion to f32
\* rounds a num_bodies above 2^24 and the count can fall one short.
C17_WorkgroupsIsCeil ==
    (calc.state = "workgroups") =>
        /\ WorkgroupSize * calc.value >= num
        /\ (calc.value > 0) => WorkgroupSize * (calc.value - 1) < num

\* C19 (as claimed): the byte length of the mapped region is num_bodies * 32
\* exactly and the product neither overflows nor wraps, for every
\* num_bodies.  From 2^27 bodies on the u32 product overflows.
C19_UpperBoundExact ==
    /\ calc.state # "overflow_panic"
    /\ (calc.state = "upper_bound") =>
           /\ calc.value % BodySize = 0
           /\ calc.value \div BodySize = num

\* ---- termination ---------------------------------------------------------------

\* the calls that wait (set_dt is a plain assignment and is left out), with
\* a device that completes every map request it is given
NextLive ==
    \/ SyncMapAsync
    \/ PollMap
    \/ SyncCopy
    \/ \E in \in Inputs : WriteBodies(in)
    \/ WriteCopy
    \/ ReadBodies
    \/ ReadCopy
    \/ \E n \in 0..MaxSteps : SubmitAndBlock(n)
    \/ SubmitEncode
    \/ SubmitRegister
    \/ PollSubmit
    \/ SubmitReturn
    \/ DeviceMapOk
    \/ DeviceExecute
    \/ DeviceRetire
    \/ DeviceWorkDone

\* a step of the host thread inside a call
HostStep ==
    \/ SyncMapAsync
    \/ PollMap
    \/ SyncCopy
    \/ WriteCopy
    \/ ReadCopy
    \/ SubmitEncode
    \/ SubmitRegister
    \/ PollSubmit
    \/ SubmitReturn

\* a step of the device
DeviceStep ==
    \/ DeviceMapOk
    \/ DeviceExecute
    \/ DeviceRetire
    \/ DeviceWorkDone

\* the host thread runs on inside a call (its loops poll again and again)
HostFairness == WF_vars(HostStep)

\* the device completes every map request and every submitted batch
DeviceFairness == WF_vars(DeviceStep)

\* the pipeline after construction, built with the copying kernel: no wait
\* reads the contents of a body buffer
InitLive == Init /\ kernel = "copy"

LiveSpec == InitLive /\ [][NextLive]_vars /\ HostFairness /\ DeviceFairness

\* a call is in progress
InCall == pc \notin {"idle", "aborted"}

\* the flag is stored to by the callback alone, once in a wait, and the
\* loop is left with the flag set
FlagStep ==
    /\ (~signal /\ signal') =>
           (pc \in Waits /\ pc' = pc /\ CallbackReady /\ ~CallbackReady')
    /\ (signal /\ ~signal') => (pc \notin Waits /\ pc' \in Waits)
    /\ (pc \in Waits /\ pc' \notin Waits) => (signal /\ signal')

\* C20: with a device that completes every map request and every batch and
\* polls that deliver the ready callbacks, every call in progress (the
\* synchronisation of create, a write within capacity, a read, a
\* submit_and_block) returns; the flag of a wait is set once, by the
\* callback, and the loop is left only with the flag set.
C20_Termination ==
    /\ InCall ~> (pc = "idle")
    /\ [][FlagStep]_vars

\* a submit_and_block whose dispatches all ran has returned
C20_Witness ==
    /\ pc = "idle" /\ op = "submit"
    /\ num_passes = MaxSteps
    /\ signal
    /\ work_done = "none"
    /\ queue = <<>>
====
